---- MODULE Spec2Model ----
(***************************************************************************)
(* mkpl: command line tool that builds M3U playlists (src/mkpl.py).        *)
(*                                                                         *)
(* The model follows one process of main_cli: parse_args, get_args,        *)
(* make_playlist, join_playlist, write_playlist.  Text is modelled as      *)
(* sequences of one-character strings so that substring tests, line        *)
(* splitting, capwords and lexicographic comparison are computed as the    *)
(* Python code computes them.                                              *)
(***************************************************************************)
EXTENDS Integers, Sequences, FiniteSets, TLC

VARIABLES
    pc,         \* position of the process in main_cli / of the library caller
    args,       \* the argparse namespace
    params,     \* the arguments of the current make_playlist call
    dest,       \* the destination playlist file: [exists, text]
    before,     \* the destination file as it was when the process started
    playlist,   \* the Playlist namedtuple built by make_playlist
    log,        \* diagnostics printed so far
    walk,       \* make_playlist: where the loops over directories, formats and files are
    asked       \* the files confirm() was called for, in order

vars == <<pc, args, params, dest, before, playlist, log, walk, asked>>

-----------------------------------------------------------------------------
(* Bounds of the explored inputs *)

\* --size / --max-size range over 0..MaxSize bytes
MaxSize == 3
\* --length / --max-length range over 0..MaxLength seconds
MaxLength == 3
\* --max-tracks ranges over None and -MaxTracks..MaxTracks
MaxTracks == 2

-----------------------------------------------------------------------------
(* Characters and strings *)

NL == "\n"

\* the characters used, in code point order
ALPHABET ==
    << "\n", " ", "#", "%", "'", "(", ")", "*", ",", "-", ".", "/",
       "0", "1", "2", "3", "4", "5", "6", "7", "8", "9",
       ":", "A", "B", "C", "D", "E", "F", "G", "I", "K", "L", "M", "N", "O", "P",
       "S", "T", "U", "X", "Y", "[", "\\", "]",
       "a", "b", "c", "d", "e", "f", "g", "h", "i", "j", "k", "l", "m", "n",
       "o", "p", "r", "s", "t", "u", "v", "w", "x", "y", "É", "é" >>

Ord(c) == CHOOSE i \in 1..Len(ALPHABET) : ALPHABET[i] = c

LOWER == << "a", "b", "c", "d", "e", "f", "g", "h", "i", "j", "k", "l", "m", "n",
            "o", "p", "r", "s", "t", "u", "v", "w", "x", "y", "é" >>
UPPER == << "A", "B", "C", "D", "E", "F", "G", "H", "I", "J", "K", "L", "M", "N",
            "O", "P", "R", "S", "T", "U", "V", "W", "X", "Y", "É" >>

\* str.upper / str.lower on one character
Upper(c) ==
    IF \E i \in 1..Len(LOWER) : LOWER[i] = c
    THEN UPPER[CHOOSE i \in 1..Len(LOWER) : LOWER[i] = c]
    ELSE c

Lower(c) ==
    IF \E i \in 1..Len(UPPER) : UPPER[i] = c
    THEN LOWER[CHOOSE i \in 1..Len(UPPER) : UPPER[i] = c]
    ELSE c

IsAscii(c) == c \notin {"é", "É"}

IsSpace(c) == c \in {" ", "\n"}

\* str.startswith
StartsWith(s, p) == Len(p) <= Len(s) /\ SubSeq(s, 1, Len(p)) = p

\* str.endswith
EndsWith(s, p) ==
    Len(p) <= Len(s) /\ SubSeq(s, Len(s) - Len(p) + 1, Len(s)) = p

\* Python's `sub in s`
Contains(sub, s) ==
    \E i \in 0..(Len(s) - Len(sub)) : SubSeq(s, i + 1, i + Len(sub)) = sub

\* Python's str < str: lexicographic by code point
StrLess(a, b) ==
    \E i \in 1..Len(b) :
        /\ i - 1 <= Len(a)
        /\ \A j \in 1..(i - 1) : a[j] = b[j]
        /\ (i > Len(a) \/ Ord(a[i]) < Ord(b[i]))

RECURSIVE Concat(_)
\* "".join(parts)
Concat(parts) ==
    IF parts = <<>> THEN <<>> ELSE Head(parts) \o Concat(Tail(parts))

RECURSIVE Lines(_)
\* iteration over a text file: each line keeps its terminating newline
Lines(text) ==
    IF text = <<>> THEN <<>>
    ELSE IF \E k \in 1..Len(text) : text[k] = NL
         THEN LET k == CHOOSE k \in 1..Len(text) :
                          text[k] = NL /\ \A j \in 1..(k - 1) : text[j] # NL
              IN  <<SubSeq(text, 1, k)>> \o Lines(SubSeq(text, k + 1, Len(text)))
         ELSE <<text>>

RECURSIVE RStrip(_)
\* str.rstrip()
RStrip(s) ==
    IF s # <<>> /\ IsSpace(s[Len(s)]) THEN RStrip(SubSeq(s, 1, Len(s) - 1)) ELSE s

RECURSIVE LStrip(_)
LStrip(s) == IF s # <<>> /\ IsSpace(Head(s)) THEN LStrip(Tail(s)) ELSE s

RECURSIVE Words(_)
\* str.split(): the maximal runs of non-whitespace characters
Words(s) ==
    LET t == LStrip(s) IN
    IF t = <<>> THEN <<>>
    ELSE LET n == IF \E k \in 1..Len(t) : IsSpace(t[k])
                  THEN (CHOOSE k \in 1..Len(t) :
                            IsSpace(t[k]) /\ \A j \in 1..(k - 1) : ~IsSpace(t[j])) - 1
                  ELSE Len(t)
         IN  <<SubSeq(t, 1, n)>> \o Words(SubSeq(t, n + 1, Len(t)))

\* str.capitalize()
Capitalize(w) ==
    [i \in 1..Len(w) |-> IF i = 1 THEN Upper(w[i]) ELSE Lower(w[i])]

RECURSIVE JoinWith(_, _)
\* sep.join(parts)
JoinWith(sep, parts) ==
    IF parts = <<>> THEN <<>>
    ELSE IF Len(parts) = 1 THEN Head(parts)
    ELSE Head(parts) \o sep \o JoinWith(sep, Tail(parts))

\* string.capwords(s)
capwords(s) ==
    JoinWith(<<" ">>, [i \in 1..Len(Words(s)) |-> Capitalize(Words(s)[i])])

\* the text a file opened with `encoding`, errors="ignore" stores for `text`
Encode(text, encoding) ==
    IF encoding = "ASCII" THEN SelectSeq(text, IsAscii) ELSE text

\* list[:n] with n an int, list[:None] when n = <<>>
SliceTo(list, n) ==
    IF n = <<>> THEN list
    ELSE IF n[1] >= 0 THEN SubSeq(list, 1, IF n[1] < Len(list) THEN n[1] ELSE Len(list))
    ELSE SubSeq(list, 1, Len(list) + n[1])

-----------------------------------------------------------------------------
(* Literals of the program *)

EXTM3U == << "#", "E", "X", "T", "M", "3", "U" >>
PLAYLIST == << "#", "P", "L", "A", "Y", "L", "I", "S", "T" >>
EXTENC == << "#", "E", "X", "T", "E", "N", "C" >>
EXTIMG == << "#", "E", "X", "T", "I", "M", "G" >>
EXTINF == << "#", "E", "X", "T", "I", "N", "F" >>

UTF8 == << "U", "T", "F", "-", "8" >>
ASCII == << "A", "S", "C", "I", "I" >>
UNICODE == << "U", "N", "I", "C", "O", "D", "E" >>

\* the text of an --encoding choice
EncodingText(e) ==
    IF e = "UTF-8" THEN UTF8 ELSE IF e = "ASCII" THEN ASCII ELSE UNICODE

MP3 == << "m", "p", "3" >>
M4A == << "m", "4", "a" >>
OGG == << "o", "g", "g" >>
AVI == << "a", "v", "i" >>

\* the members of AUDIO_FORMAT / VIDEO_FORMAT that occur on the modelled disk
AUDIO_FORMAT == {MP3, M4A, OGG}
VIDEO_FORMAT == {AVI}
FILE_FORMAT == AUDIO_FORMAT \cup VIDEO_FORMAT

TAG_FILTER ==
    [album  |-> << "TALB", "©alb" >>,
     artist |-> << "TPE1", "©ART" >>,
     genre  |-> << "TCON", "©gen" >>,
     title  |-> << "TIT2", "©nam" >>,
     year   |-> << "TDOR", "©day" >>]

DIGITS == << "0", "1", "2", "3", "4", "5", "6", "7", "8", "9" >>

IsDigit(c) == \E i \in 1..10 : DIGITS[i] = c

DigitVal(c) == (CHOOSE i \in 1..10 : DIGITS[i] = c) - 1

RECURSIVE NatStr(_)
\* str(n) for n >= 0
NatStr(n) ==
    IF n < 10 THEN <<DIGITS[n + 1]>> ELSE NatStr(n \div 10) \o <<DIGITS[(n % 10) + 1]>>

\* str(n)
IntStr(n) == IF n < 0 THEN <<"-">> \o NatStr(-n) ELSE NatStr(n)

RECURSIVE StrNat(_)
\* int(s) for a string of decimal digits
StrNat(s) ==
    IF s = <<>> THEN 0
    ELSE 10 * StrNat(SubSeq(s, 1, Len(s) - 1)) + DigitVal(s[Len(s)])

\* str.isdecimal()
IsDecimal(s) == s # <<>> /\ \A i \in 1..Len(s) : IsDigit(s[i])

-----------------------------------------------------------------------------
(* The file system the process runs on *)

A_MP3 == << "a", ".", "m", "p", "3" >>
B_MP3 == << "b", ".", "m", "p", "3" >>
V_AVI == << "v", ".", "a", "v", "i" >>
E_MP3 == << "x", "/", "e", ".", "m", "p", "3" >>
GONE_MP3 == << "x", "/", "n", ".", "m", "p", "3" >>
COVER == << "c", ".", "j", "p", "g" >>
NOCOVER == << "n", ".", "j", "p", "g" >>
LINK == << "h", "t", "t", "p", ":", "/", "/", "h", "/", "s" >>
BADLINK == << "f", "t", "p", ":", "/", "/", "h" >>
JOINED == << "j", ".", "m", "3", "u" >>
NOJOIN == << "k", ".", "m", "3", "u" >>
J1 == << "j", "1", ".", "m", "p", "3" >>
F_MP3 == << "x", "/", "y", "/", "f", ".", "m", "p", "3" >>
G_M4A == << "x", "/", "y", "/", "g", ".", "m", "4", "a" >>
U_MP3 == << "z", "/", "u", ".", "m", "p", "3" >>
O_OGG == << "z", "/", "o", ".", "o", "g", "g" >>
T_MP3 == << "z", "/", "t", ".", "m", "p", "3" >>

\* the current directory and its subdirectories; NO_DIR does not exist
DOT == << "." >>
X_DIR == << "x" >>
XY_DIR == << "x", "/", "y" >>
Z_DIR == << "z" >>
NO_DIR == << "q" >>
\* a directory with the name of a playlist
D_M3U == << "d", ".", "m", "3", "u" >>
DIRS == {DOT, X_DIR, XY_DIR, Z_DIR, D_M3U}

\* os.getcwd()
CWD == << "/", "w" >>

\* what mutagen's File(path) yields for the media files on disk:
\*   kind   "none"   File() returns None (format not recognised)
\*          "id3"    tags is an id3.ID3Tags      "mp4"  tags is an mp4.MP4Tags
\*          "other"  tags is another container   "notags"  tags is None
\*   truthy bool(file);  length  info.length in 1/100 s, -1: info has no length
\*   tags   tag key -> list of values; a value is a text (an ID3 frame's text,
\*          an MP4 string) or a pair of numbers (MP4 trkn)
NoTags == [k \in {} |-> <<>>]

Text(s) == [text |-> s, pair |-> <<>>]

Pair(a, b) == [text |-> <<>>, pair |-> <<a, b>>]

DISK ==
    { [path |-> A_MP3, size |-> 3, ctime |-> 2, content |-> 1,
       media |-> [kind |-> "id3", truthy |-> TRUE, length |-> 199,
                  tags |-> [k \in {"TRCK", "TDOR", "TPE1", "TIT2"} |->
                              CASE k = "TRCK" -> << Text(<< "1", "/", "9" >>) >>
                                [] k = "TDOR" -> << Text(<< "2", "0", "0", "1" >>) >>
                                [] k = "TPE1" -> << Text(<< "A", "b" >>) >>
                                [] k = "TIT2" -> << Text(<< "S", "o" >>) >>]]],
      [path |-> B_MP3, size |-> 2, ctime |-> 1, content |-> 2,
       media |-> [kind |-> "id3", truthy |-> TRUE, length |-> 200,
                  tags |-> [k \in {"TRCK", "TIT2"} |->
                              CASE k = "TRCK" -> << Text(<< "2" >>) >>
                                [] k = "TIT2" -> << >>]]],
      [path |-> V_AVI, size |-> 1, ctime |-> 3, content |-> 3,
       media |-> [kind |-> "none", truthy |-> FALSE, length |-> -1, tags |-> NoTags]],
      [path |-> E_MP3, size |-> 2, ctime |-> 0, content |-> 4,
       media |-> [kind |-> "id3", truthy |-> TRUE, length |-> 100,
                  tags |-> [k \in {"TDOR"} |-> << Text(<< "1", "9", "9", "9" >>) >>]]],
      [path |-> COVER, size |-> 1, ctime |-> 1, content |-> 5,
       media |-> [kind |-> "none", truthy |-> FALSE, length |-> -1, tags |-> NoTags]],
      \* a copy of x/e.mp3
      [path |-> F_MP3, size |-> 2, ctime |-> 4, content |-> 4,
       media |-> [kind |-> "id3", truthy |-> TRUE, length |-> 100,
                  tags |-> [k \in {"TDOR"} |-> << Text(<< "1", "9", "9", "9" >>) >>]]],
      \* an MP4 file: track 2 of 9
      [path |-> G_M4A, size |-> 2, ctime |-> 5, content |-> 6,
       media |-> [kind |-> "mp4", truthy |-> TRUE, length |-> 150,
                  tags |-> [k \in {"trkn", "©ART"} |->
                              CASE k = "trkn" -> << Pair(2, 9) >>
                                [] k = "©ART" -> << Text(<< "A", "b" >>) >>]]],
      \* a file mutagen cannot open (MutagenError, or File() returns None)
      [path |-> U_MP3, size |-> 1, ctime |-> 6, content |-> 7,
       media |-> [kind |-> "none", truthy |-> FALSE, length |-> -1, tags |-> NoTags]],
      \* an Ogg Vorbis file: its tags are neither ID3Tags nor MP4Tags
      [path |-> O_OGG, size |-> 2, ctime |-> 7, content |-> 8,
       media |-> [kind |-> "other", truthy |-> TRUE, length |-> 120,
                  tags |-> [k \in {"title"} |-> << Text(<< "S", "o" >>) >>]]],
      \* an MP3 file without tags: file.tags is None
      [path |-> T_MP3, size |-> 3, ctime |-> 8, content |-> 9,
       media |-> [kind |-> "notags", truthy |-> FALSE, length |-> 130,
                  tags |-> NoTags]] }

\* text of the playlist file given to --join
JOINED_TEXT == EXTM3U \o <<NL>> \o J1 \o <<" ", NL>>

\* the path of a file relative to the current directory
Rel(path) ==
    IF StartsWith(path, CWD \o <<"/">>) THEN SubSeq(path, Len(CWD) + 2, Len(path))
    ELSE IF StartsWith(path, <<".", "/">>) THEN SubSeq(path, 3, Len(path))
    ELSE path

\* os.path.exists, for the path of a file
exists(path) == \E f \in DISK : f.path = Rel(path)

FileAt(path) == CHOOSE f \in DISK : f.path = Rel(path)

\* os.path.isdir
isdir(path) == path \in DIRS

\* Path(".").glob("*.<fmt>") over the formats: the candidates of the scanned directory
CANDIDATES == {A_MP3, B_MP3, V_AVI}

\* the largest member of the set of numbers `indices`, 0 when it is empty
Last(indices) ==
    IF indices = {} THEN 0 ELSE CHOOSE i \in indices : \A j \in indices : j <= i

\* os.path.splitext: the extension of `path` without its dot, `sep` being the
\* index of the last "/" and `dot` of the last "." after it (0 when there is none)
SplitExt(path, sep, dot) ==
    IF dot > 0 /\ (\E j \in (sep + 1)..(dot - 1) : path[j] # ".")
    THEN SubSeq(path, dot + 1, Len(path))
    ELSE <<>>

\* str.lower()
LowerText(s) == [i \in 1..Len(s) |-> Lower(s[i])]

\* os.path.splitext(path)[1].replace(".", "").lower()
Ext(path) ==
    LowerText(SplitExt(path,
                       Last({i \in 1..Len(path) : path[i] = "/"}),
                       Last({i \in 1..Len(path) :
                                /\ path[i] = "."
                                /\ \A j \in i..Len(path) : path[j] # "/"})))

\* open_multimedia_file(path): the media record, kind "none" standing for None
NoMedia == [kind |-> "none", truthy |-> FALSE, length |-> -1, tags |-> NoTags]

open_multimedia_file(path) ==
    IF Ext(path) \in AUDIO_FORMAT
    THEN IF exists(path) THEN FileAt(path).media ELSE NoMedia
    ELSE NoMedia

\* durations are kept in hundredths of a second; 0.1 s is 10
DefaultLength == 10

\* get_length(file), file a path or a PlaylistEntry
LengthOf(file) ==
    IF file.kind # "none" /\ file.truthy
    THEN IF file.length >= 0 THEN file.length ELSE DefaultLength
    ELSE DefaultLength

get_length(path) == LengthOf(open_multimedia_file(path))

\* get_ctime(file)
get_ctime(path) == IF exists(path) THEN FileAt(path).ctime ELSE 0

\* get_size(file)
get_size(path) == IF exists(path) THEN FileAt(path).size ELSE 0

-----------------------------------------------------------------------------
(* Tags *)

\* an optional string: None, a str, or an exception (of type err) raised instead
\* of a value
None == [st |-> "none", v |-> <<>>, err |-> ""]

Some(s) == [st |-> "ok", v |-> s, err |-> ""]

Raise(err) == [st |-> "raise", v |-> <<>>, err |-> err]

\* str(x) for x None or a str
PyStr(x) == IF x.st = "none" THEN << "N", "o", "n", "e" >> ELSE x.v

\* repr of one MP4 value
Repr(item) ==
    IF item.pair = <<>> THEN <<"'">> \o item.text \o <<"'">>
    ELSE <<"(">> \o IntStr(item.pair[1]) \o <<",", " ">> \o IntStr(item.pair[2]) \o <<")">>

\* str(list)
PyStrList(items) ==
    <<"[">> \o JoinWith(<<",", " ">>, [i \in 1..Len(items) |-> Repr(items[i])]) \o <<"]">>

\* get_tag: the value returned once `file` is opened
TagOf(file, tag, default) ==
    IF file.kind = "none" \/ ~file.truthy THEN default
    ELSE IF file.kind = "notags" THEN Raise("AttributeError")
    ELSE IF tag \notin DOMAIN file.tags
         THEN IF default.st = "none" THEN default
              ELSE IF file.kind \in {"id3", "mp4"} THEN Some(PyStr(default))
              ELSE Raise("UnboundLocalError")
    ELSE IF file.kind = "id3"
         THEN IF file.tags[tag] # <<>> THEN Some(file.tags[tag][1].text)
              ELSE Some(PyStr(default))
    ELSE IF file.kind = "mp4" THEN Some(PyStrList(file.tags[tag]))
    ELSE Raise("UnboundLocalError")

\* get_tag(file, tag, default)
get_tag(path, tag, default) == TagOf(open_multimedia_file(path), tag, default)

\* an int result, or an exception raised instead
IntResult(n) == [st |-> "ok", n |-> n, err |-> ""]

IntRaise(err) == [st |-> "raise", n |-> 0, err |-> err]

\* str.split("/")[0]
BeforeSlash(s) ==
    IF \E k \in 1..Len(s) : s[k] = "/"
    THEN SubSeq(s, 1, (CHOOSE k \in 1..Len(s) :
                          s[k] = "/" /\ \A j \in 1..(k - 1) : s[j] # "/") - 1)
    ELSE s

\* int(tags) if tags.isdecimal() else 0
IntOr0(tags) == IF IsDecimal(tags) THEN IntResult(StrNat(tags)) ELSE IntResult(0)

\* get_track: the key returned once `file` is opened, `tags` being the track tag
TrackOf(file, tags) ==
    IF file.kind = "none" THEN IntResult(0)
    ELSE IF tags.st = "raise" THEN IntRaise(tags.err)
    ELSE IntOr0(BeforeSlash(tags.v))

\* get_track(file)
get_track(path) ==
    TrackOf(open_multimedia_file(path),
            TagOf(open_multimedia_file(path),
                  IF open_multimedia_file(path).kind = "id3" THEN "TRCK" ELSE "trkn",
                  Some(<<"0">>)))

\* get_year: the key returned once `file` is opened
YearOf(file) ==
    IF file.kind = "none" THEN Some(<<"0", "0", "0", "0">>)
    ELSE TagOf(file,
               IF file.kind = "id3" THEN TAG_FILTER["year"][1] ELSE TAG_FILTER["year"][2],
               Some(<<"0", "0", "0", "0">>))

\* get_year(file)
get_year(path) == YearOf(open_multimedia_file(path))

UNKNOWN_INFOS ==
    << "U", "n", "k", "n", "o", "w", "n", " ", "e", "x", "t", "r", "a", " ",
       "i", "n", "f", "o", "s" >>

\* str.replace("\n", " ")
NoNewlines(text) == [i \in 1..Len(text) |-> IF text[i] = NL THEN " " ELSE text[i]]

\* make_extinf: "{},{} - {}".format(length, artist_tags, title_tags), for `file`
\* opened and the tags read
ExtInfOf(file, artist_tags, title_tags) ==
    IF artist_tags.st = "raise" THEN artist_tags
    ELSE IF title_tags.st = "raise" THEN title_tags
    ELSE Some(NoNewlines(IntStr(IF file.length >= 0 THEN file.length \div 100 ELSE -1)
                         \o <<",">> \o artist_tags.v \o <<" ", "-", " ">>
                         \o title_tags.v))

\* make_extinf: the result for an audio extension, once `file` is opened
AudioInfOf(file) ==
    IF file.kind = "none" THEN Raise("AttributeError")
    ELSE ExtInfOf(file,
                  TagOf(file, IF file.kind = "id3" THEN TAG_FILTER["artist"][1]
                                                   ELSE TAG_FILTER["artist"][2], Some(<<>>)),
                  TagOf(file, IF file.kind = "id3" THEN TAG_FILTER["title"][1]
                                                   ELSE TAG_FILTER["title"][2], Some(<<>>)))

\* make_extinf(file)
make_extinf(path) ==
    IF Ext(path) \in AUDIO_FORMAT THEN AudioInfOf(open_multimedia_file(path))
    ELSE Some(UNKNOWN_INFOS)

\* the keys of TAG_FILTER as texts
TAG_KEYS ==
    [album  |-> << "a", "l", "b", "u", "m" >>,
     artist |-> << "a", "r", "t", "i", "s", "t" >>,
     genre  |-> << "g", "e", "n", "r", "e" >>,
     title  |-> << "t", "i", "t", "l", "e" >>,
     year   |-> << "y", "e", "a", "r" >>]

\* PlaylistFilter(key, value); value is None or a str
PlaylistFilter(key, value) == [key |-> key, value |-> value]

\* s.replace("'", "").replace('"', "").lower()
Unquoted(s) ==
    LET kept == SelectSeq(s, LAMBDA c : c \notin {"'", "\""})
    IN  [i \in 1..Len(kept) |-> Lower(kept[i])]

\* get_filter(filter_)
get_filter(filter_) ==
    IF ~\E i \in 1..Len(filter_) : filter_[i] = "="
    THEN PlaylistFilter(filter_, None)
    ELSE LET k == CHOOSE i \in 1..Len(filter_) :
                      filter_[i] = "=" /\ \A j \in 1..(i - 1) : filter_[j] # "="
         IN  PlaylistFilter(Unquoted(SubSeq(filter_, 1, k - 1)),
                            Some(Unquoted(SubSeq(filter_, k + 1, Len(filter_)))))

\* validate_filter(playlist_filter)
validate_filter(playlist_filter) ==
    \E k \in DOMAIN TAG_KEYS : TAG_KEYS[k] = playlist_filter.key

\* a bool result, or an exception raised instead
BoolResult(b) == [st |-> "ok", b |-> b, err |-> ""]

BoolRaise(err) == [st |-> "raise", b |-> FALSE, err |-> err]

\* re.match(pattern, text, re.IGNORECASE), pattern without special characters
MatchIgnoreCase(pattern, text) ==
    /\ Len(pattern) <= Len(text)
    /\ \A i \in 1..Len(pattern) : Lower(pattern[i]) = Lower(text[i])

\* check_filter: `tags and re.match(playlist_filter.value, tags, re.IGNORECASE)`
FilterMatch(tags, value) ==
    IF tags.st = "raise" THEN BoolRaise(tags.err)
    ELSE IF tags.st = "none" \/ tags.v = <<>> THEN BoolResult(FALSE)
    ELSE IF value.st = "none" THEN BoolRaise("TypeError")
    ELSE BoolResult(MatchIgnoreCase(value.v, tags.v))

\* check_filter: TAG_FILTER[playlist_filter.key] in the dialect of the file
FilterTag(temp_file, key) ==
    IF temp_file.kind = "id3" THEN TAG_FILTER[key][1] ELSE TAG_FILTER[key][2]

\* check_filter: the result once `temp_file` is opened
FilterOn(temp_file, playlist_filter) ==
    IF temp_file.kind = "none" THEN BoolResult(FALSE)
    ELSE FilterMatch(TagOf(temp_file,
                           FilterTag(temp_file,
                                     CHOOSE k \in DOMAIN TAG_KEYS :
                                         TAG_KEYS[k] = playlist_filter.key),
                           None),
                     playlist_filter.value)

\* check_filter(file, playlist_filter)
check_filter(path, playlist_filter) ==
    FilterOn(open_multimedia_file(path), playlist_filter)

-----------------------------------------------------------------------------
(* Sorting *)

\* list.sort(): the stable sort of seq, less[i][j] telling that the element at
\* index i is smaller than the element at index j; equal elements keep their order
SortedBy(seq, less) ==
    [k \in 1..Len(seq) |->
        seq[CHOOSE i \in 1..Len(seq) :
                Cardinality({j \in 1..Len(seq) :
                                less[j][i] \/ (~less[i][j] /\ j < i)}) = k - 1]]

\* list.sort(key=..., reverse=...), less[i][j] comparing the keys of the elements
\* at i and j: reverse sorts as if each comparison were reversed
SortKey(seq, less, reverse) ==
    SortedBy(seq, IF reverse
                  THEN [i \in 1..Len(seq) |-> [j \in 1..Len(seq) |-> less[j][i]]]
                  ELSE less)

\* comparison of PlaylistEntry tuples: field by field
EntryLess(a, b) ==
    \/ StrLess(a.file, b.file)
    \/ a.file = b.file /\ StrLess(a.image, b.image)
    \/ a.file = b.file /\ a.image = b.image /\ StrLess(a.extinf, b.extinf)

\* the permutations of 1..n
Perms(n) == {f \in [1..n -> 1..n] : \A i, j \in 1..n : f[i] = f[j] => i = j}

-----------------------------------------------------------------------------
(* Playlist construction: make_playlist, called with the arguments `params` *)

\* PlaylistEntry(file, image, extinf); <<>> stands for a None / False field
PlaylistEntry(file, image, extinf) == [file |-> file, image |-> image, extinf |-> extinf]

\* Playlist(files, ext, name, encoding)
Playlist(files, ext, name, encoding) ==
    [files |-> files, ext |-> ext, name |-> name, encoding |-> encoding]

\* a variant of the size checks in which a size equal to a bound passes
SizeAcceptedInclusive(size) ==
    /\ ~(params.min_size # 0 /\ size < params.min_size)
    /\ ~(params.max_size # 0 /\ size > params.max_size)

\* make_playlist: the minimum / maximum size checks on a candidate of `size` bytes
SizeAccepted(size) ==
    /\ ~(params.min_size # 0 /\ size <= params.min_size)
    /\ ~(params.max_size # 0 /\ size >= params.max_size)

\* a variant of the length checks in which a length equal to a bound passes
LengthAcceptedInclusive(path) ==
    /\ ~(params.min_length # 0 /\ get_length(path) < 100 * params.min_length)
    /\ ~(params.max_length # 0 /\ get_length(path) > 100 * params.max_length)

\* make_playlist: the minimum / maximum length checks on a candidate
LengthAccepted(path) ==
    /\ ~(params.min_length # 0 /\ get_length(path) <= 100 * params.min_length)
    /\ ~(params.max_length # 0 /\ get_length(path) >= 100 * params.max_length)

RECURSIVE MatchFilter(_, _)
\* make_playlist: the loop over the filters, which ends at the first that matches
MatchFilter(path, filters) ==
    IF filters = <<>> THEN BoolResult(FALSE)
    ELSE IF check_filter(path, Head(filters)) = BoolResult(FALSE)
         THEN MatchFilter(path, Tail(filters))
         ELSE check_filter(path, Head(filters))

\* make_playlist: the check of the filters on a found file
Filtered(path) ==
    IF params.filters = <<>> THEN BoolResult(TRUE) ELSE MatchFilter(path, params.filters)

\* make_playlist: the checks a found file passes before it is appended
Accepted(path) ==
    Filtered(path).b /\ SizeAccepted(FileAt(path).size) /\ LengthAccepted(path)

\* make_playlist: the extinf field of an entry: make_extinf(file) if infos else infos
EntryInfo(path) == IF params.infos THEN make_extinf(path) ELSE Some(<<>>)

\* make_playlist: the type of the exception raised while a found file is
\* processed, "" when there is none
FileError(path) == IF Accepted(path) THEN EntryInfo(path).err ELSE Filtered(path).err

\* make_playlist: the entry appended for a found file or an other file
FileEntry(path) == PlaylistEntry(path, params.image, EntryInfo(path).v)

\* make_playlist: the entry added for a link
LinkEntry(link) == PlaylistEntry(link, params.image, <<>>)

RECURSIVE Collected(_)
\* make_playlist: the entries appended while the directory is scanned in order `scan`
Collected(scan) ==
    IF scan = <<>> THEN <<>>
    ELSE (IF Accepted(Head(scan)) THEN <<FileEntry(Head(scan))>> ELSE <<>>)
         \o Collected(Tail(scan))

\* make_playlist: the entries added for the links
LinkEntries == [i \in 1..Len(params.links) |-> LinkEntry(params.links[i])]

\* make_playlist: the entries added for the other files
OtherEntries == [i \in 1..Len(params.other_files) |-> FileEntry(params.other_files[i])]

\* a variant of the list before the sort in which the links come first
UnsortedLinksFirst(scan) == LinkEntries \o Collected(scan) \o OtherEntries

\* make_playlist: the list before the sort: scanned files, links, other files
Unsorted(scan) == Collected(scan) \o LinkEntries \o OtherEntries

\* the exception types in `errs` ("" standing for no exception), in order
Raised(errs) == SelectSeq(errs, LAMBDA e : e # "")

\* make_playlist: for each found file in order `scan`, then for each other file,
\* the type of the exception raised while it is processed
ScanErrors(scan) ==
    [i \in 1..Len(scan) |-> FileError(scan[i])]
    \o [i \in 1..Len(params.other_files) |-> EntryInfo(params.other_files[i]).err]

\* make_playlist: the type of the exception raised while the entries are
\* built (the first one), "" when there is none
ScanError(scan) == Head(Raised(ScanErrors(scan)) \o <<"">>)

\* make_playlist: whether an exception is raised while the entries are built
ScanRaises(scan) == ScanError(scan) # ""

\* make_playlist: the sort of `files` (or the shuffle, rnd being the permutation drawn)
Sorted(files, rnd) ==
    IF params.sortby_name
    THEN SortedBy(files, [i \in 1..Len(files) |-> [j \in 1..Len(files) |->
                              EntryLess(files[i], files[j])]])
    ELSE IF params.sortby_date
    THEN SortKey(files, [i \in 1..Len(files) |-> [j \in 1..Len(files) |->
                            get_ctime(files[i].file) < get_ctime(files[j].file)]],
                 params.descending)
    ELSE IF params.sortby_track
    THEN SortKey(files, [i \in 1..Len(files) |-> [j \in 1..Len(files) |->
                            get_track(files[i].file).n < get_track(files[j].file).n]],
                 params.descending)
    ELSE IF params.sortby_year
    THEN SortKey(files, [i \in 1..Len(files) |-> [j \in 1..Len(files) |->
                            StrLess(get_year(files[i].file).v, get_year(files[j].file).v)]],
                 params.descending)
    ELSE IF params.sortby_size
    THEN SortKey(files, [i \in 1..Len(files) |-> [j \in 1..Len(files) |->
                            get_size(files[i].file) < get_size(files[j].file)]],
                 params.descending)
    ELSE IF params.sortby_length
    THEN SortKey(files, [i \in 1..Len(files) |-> [j \in 1..Len(files) |->
                            get_length(files[i].file) < get_length(files[j].file)]],
                 params.descending)
    ELSE IF params.sortby_shuffle THEN [i \in 1..Len(files) |-> files[rnd[i]]]
    ELSE files

\* make_playlist: the type of the exception the sort key of an entry raises, ""
\* when there is none
KeyError(e) ==
    IF params.sortby_name \/ params.sortby_date THEN ""
    ELSE IF params.sortby_track THEN get_track(e.file).err
    ELSE IF params.sortby_year THEN get_year(e.file).err
    ELSE ""

\* make_playlist: the type of the exception the sort raises, "" when there is none
SortError(files) == Head(Raised([i \in 1..Len(files) |-> KeyError(files[i])]) \o <<"">>)

\* make_playlist: whether a sort key raises
SortRaises(files) == SortError(files) # ""

\* the texts of the playlist files given to --join; any other path is not found
ReadablePlaylists == {JOINED}

\* open(file).readlines()
ReadLines(path) == IF path = JOINED THEN Lines(JOINED_TEXT) ELSE <<>>

\* join_playlist: the entry made of one line
JoinedEntry(line) == PlaylistEntry(RStrip(line), <<>>, <<>>)

RECURSIVE LineEntries(_)
\* join_playlist: the entries made of the lines that do not start with "#"
LineEntries(lines) ==
    IF lines = <<>> THEN <<>>
    ELSE (IF StartsWith(Head(lines), <<"#">>) THEN <<>> ELSE <<JoinedEntry(Head(lines))>>)
         \o LineEntries(Tail(lines))

RECURSIVE JoinedEntries(_)
\* join_playlist: the entries the files `others` add, in order
JoinedEntries(others) ==
    IF others = <<>> THEN <<>>
    ELSE (IF Head(others) \in ReadablePlaylists
          THEN LineEntries(ReadLines(Head(others))) ELSE <<>>)
         \o JoinedEntries(Tail(others))

\* join_playlist(playlist, *others)
join_playlist(pl, others) == [pl EXCEPT !.files = @ \o JoinedEntries(others)]

-----------------------------------------------------------------------------
(* Serialization *)

\* write_playlist: what pl.write(line + "\n") calls put out for the header
HeaderText(pl) ==
    IF pl.ext
    THEN EXTM3U \o <<NL>>
         \o (IF pl.name # <<>>
             THEN PLAYLIST \o <<":">> \o capwords(pl.name) \o <<NL>> ELSE <<>>)
         \o (IF pl.encoding # ""
             THEN EXTENC \o <<":">> \o EncodingText(pl.encoding) \o <<NL>> ELSE <<>>)
    ELSE <<>>

\* a variant of the text of one entry in which the info line precedes the image line
EntryTextInfoFirst(file) ==
    (IF file.extinf # <<>> THEN EXTINF \o <<":">> \o file.extinf \o <<NL>> ELSE <<>>)
    \o (IF file.image # <<>> THEN EXTIMG \o <<":">> \o file.image \o <<NL>> ELSE <<>>)
    \o file.file \o <<NL>>

\* write_playlist: what is written for one entry
EntryText(file) ==
    (IF file.image # <<>> THEN EXTIMG \o <<":">> \o file.image \o <<NL>> ELSE <<>>)
    \o (IF file.extinf # <<>> THEN EXTINF \o <<":">> \o file.extinf \o <<NL>> ELSE <<>>)
    \o file.file \o <<NL>>

\* write_playlist: the entries written, playlist.files[:max_tracks]
Written(pl, max_tracks) == SliceTo(pl.files, max_tracks)

RECURSIVE EntriesText(_)
\* write_playlist: what the loop over the entries writes
EntriesText(files) ==
    IF files = <<>> THEN <<>> ELSE EntryText(Head(files)) \o EntriesText(Tail(files))

\* write_playlist(playlist_file, open_mode, playlist, max_tracks): the text of
\* the file afterwards, `text` being its text before
write_playlist(text, open_mode, pl, max_tracks) ==
    (IF open_mode = "wt" THEN <<>> ELSE text)
    \o Encode(HeaderText(pl) \o EntriesText(Written(pl, max_tracks)), pl.encoding)

-----------------------------------------------------------------------------
(* Command line *)

SIZE_NAME ==
    << <<"b">>, <<"k", "b">>, <<"m", "b">>, <<"g", "b">>, <<"t", "b">>,
       <<"p", "b">>, <<"e", "b">>, <<"z", "b">>, <<"y", "b">> >>

IsAsciiLetter(c) == IsAscii(c) /\ (Upper(c) # c \/ Lower(c) # c)

RECURSIVE Run(_, _)
\* the longest prefix of s made of digits (digits = TRUE) or of ASCII letters
Run(s, digits) ==
    IF s # <<>> /\ (IF digits THEN IsDigit(Head(s)) ELSE IsAsciiLetter(Head(s)))
    THEN <<Head(s)>> \o Run(Tail(s), digits)
    ELSE <<>>

\* human_size_to_byte: num * 1024 ** size_name.index(unit)
UnitBytes(num, unit) ==
    IF \E i \in 1..Len(SIZE_NAME) : SIZE_NAME[i] = unit
    THEN IntResult(StrNat(num) *
             1024 ^ ((CHOOSE i \in 1..Len(SIZE_NAME) : SIZE_NAME[i] = unit) - 1))
    ELSE IntRaise("ValueError")

\* human_size_to_byte: unit if "b" in unit else unit + "b"
WithB(unit) == IF \E i \in 1..Len(unit) : unit[i] = "b" THEN unit ELSE unit \o <<"b">>

\* human_size_to_byte: the bytes for the groups `num` and `unit` of the match
SizeBytes(num, unit) ==
    IF unit = <<>> THEN IntResult(StrNat(num)) ELSE UnitBytes(num, WithB(LowerText(unit)))

\* the group ` ?([a-zA-Z]+)?` matched at the start of `rest`
UnitAt(rest) ==
    IF rest # <<>> /\ Head(rest) = " " THEN Run(Tail(rest), FALSE) ELSE Run(rest, FALSE)

\* human_size_to_byte: the bytes when the digits `num` are matched at the start of s
SizeAfter(s, num) == SizeBytes(num, UnitAt(SubSeq(s, Len(num) + 1, Len(s))))

\* human_size_to_byte(size): re.search("([0-9]+) ?([a-zA-Z]+)?", size), then
\* num * 1024 ** size_name.index(unit); st "raise" when an exception is raised
human_size_to_byte(size) ==
    IF ~\E i \in 1..Len(size) : IsDigit(size[i]) THEN IntRaise("TypeError")
    ELSE SizeAfter(SubSeq(size,
                          CHOOSE i \in 1..Len(size) :
                              IsDigit(size[i]) /\ \A j \in 1..(i - 1) : ~IsDigit(size[j]),
                          Len(size)),
                   Run(SubSeq(size,
                              CHOOSE i \in 1..Len(size) :
                                  IsDigit(size[i]) /\ \A j \in 1..(i - 1) : ~IsDigit(size[j]),
                              Len(size)),
                       TRUE))

\* re.match("https?://", link)
IsHttpLink(link) ==
    \/ StartsWith(link, << "h", "t", "t", "p", ":", "/", "/" >>)
    \/ StartsWith(link, << "h", "t", "t", "p", "s", ":", "/", "/" >>)

\* list(islice(opened_playlist, 3))
FirstThreeLines(text) ==
    SubSeq(Lines(text), 1, IF Len(Lines(text)) < 3 THEN Len(Lines(text)) ELSE 3)

\* get_args: the marker `mark` occurs in one of the first three lines
InFirstLines(mark, text) ==
    \E i \in 1..Len(FirstThreeLines(text)) : Contains(mark, FirstThreeLines(text)[i])

\* get_args: enabled_extensions / enabled_title / enabled_encoding and the image
\* after the append-mode inspection of the destination with text `text`
Extensions(a, text) ==
    LET ext == \/ (a.title # <<>> \/ a.encoding # "" \/ a.image # <<>> \/ a.add_info)
               \/ a.append /\ InFirstLines(EXTM3U, text)
    IN  [enabled_extensions |-> ext,
         enabled_title      |-> a.title # <<>> \/ (a.append /\ InFirstLines(PLAYLIST, text)),
         enabled_encoding   |-> a.encoding # "" \/ (a.append /\ InFirstLines(EXTENC, text)),
         warned             |-> a.append /\ Len(text) > 0 /\ ~ext /\ a.image # <<>>,
         image              |-> IF a.append /\ Len(text) > 0 /\ ~ext THEN <<>> ELSE a.image]

\* get_args: the minimum / maximum length check; TRUE when parser.error is called
LengthConflict(a) ==
    \/ a.length # 0 /\ a.length = a.max_length
    \/ a.max_length # 0 /\ a.length >= a.max_length

\* get_args: [get_filter(f) for ... if validate_filter(get_filter(f))]
ActiveFilters(strings) ==
    LET valid == SelectSeq(strings, LAMBDA f : validate_filter(get_filter(f)))
    IN  [i \in 1..Len(valid) |-> get_filter(valid[i])]

\* get_args: the warnings get_filter and validate_filter print
FilterWarnings(strings) ==
    (IF \E i \in 1..Len(strings) : get_filter(strings[i]).value.st = "none"
     THEN {"warning: not a valid filter"} ELSE {})
    \cup
    (IF \E i \in 1..Len(strings) : ~validate_filter(get_filter(strings[i]))
     THEN {"warning: not a valid key for filter"} ELSE {})

RECURSIVE Strip(_, _)
\* str.strip(c)
Strip(s, c) ==
    IF s # <<>> /\ Head(s) = c THEN Strip(Tail(s), c)
    ELSE IF s # <<>> /\ s[Len(s)] = c THEN Strip(SubSeq(s, 1, Len(s) - 1), c)
    ELSE s

\* get_args: FILE_FORMAT after --include (a list of formats) and --format (one
\* format, <<>> when not given)
Formats(include, format) ==
    IF format # <<>> THEN {Strip(Strip(format, "*"), ".")}
    ELSE FILE_FORMAT \cup {Strip(Strip(include[i], "*"), ".") : i \in 1..Len(include)}

M3U == << ".", "m", "3", "u" >>
M3U8 == << ".", "m", "3", "u", "8" >>

\* get_args: arguments.playlist after the check of its extension
PlaylistName(a) ==
    IF ~EndsWith(a.playlist, M3U)
    THEN IF a.encoding = "UNICODE"
         THEN IF ~EndsWith(a.playlist, M3U8) THEN a.playlist \o M3U8 ELSE a.playlist
         ELSE a.playlist \o M3U
    ELSE a.playlist

\* get_args: the namespace returned, `e` being the outcome of the inspection
\* of the destination
Namespace(a, e) ==
    [a EXCEPT !.playlist = PlaylistName(a),
              !.open_mode = IF a.append THEN "at+" ELSE "wt",
              !.enabled_extensions = e.enabled_extensions,
              !.enabled_title = e.enabled_title,
              !.enabled_encoding = e.enabled_encoding,
              !.image = e.image,
              !.size = human_size_to_byte(a.size).n,
              !.max_size = human_size_to_byte(a.max_size).n,
              !.link = SelectSeq(a.link, IsHttpLink),
              !.file = SelectSeq(a.file, exists),
              !.filter = ActiveFilters(a.filter),
              !.file_formats = Formats(a.include, a.format)]

\* get_args(): the namespace returned for the parsed command line `a`, the
\* destination having text `text` when (and if) it is opened
get_args(a, text) == Namespace(a, Extensions(a, text))

\* get_args: how it ends once the image and the sizes are known: "error"
\* (parser.error, exit status 2), an exception type (the exception reaches
\* main) or "ok"
OutcomeOf(a, image, size, max_size) ==
    IF isdir(PlaylistName(a)) THEN "error"
    ELSE IF image # <<>> /\ ~exists(image) THEN "error"
    ELSE IF size.st = "raise" THEN size.err
    ELSE IF max_size.st = "raise" THEN max_size.err
    ELSE IF LengthConflict(a) THEN "error"
    ELSE "ok"

\* get_args: how it ends for the parsed command line `a`
GetArgsOutcome(a, text) ==
    OutcomeOf(a, Extensions(a, text).image,
              human_size_to_byte(a.size), human_size_to_byte(a.max_size))

\* report_issue(exc): the line printed for an exception of type err
Report(err) == "error: " \o err

\* main_cli: the arguments make_playlist is called with
MakeParams(a) ==
    [extension |-> a.enabled_extensions, title |-> a.title, encoding |-> a.encoding,
     image |-> a.image, infos |-> a.add_info,
     sortby_name |-> a.orderby = "name", sortby_date |-> a.orderby = "date",
     sortby_track |-> a.orderby = "track", sortby_year |-> a.orderby = "year",
     sortby_size |-> a.orderby = "size", sortby_length |-> a.orderby = "length",
     sortby_shuffle |-> a.orderby = "shuffle",
     min_size |-> a.size, max_size |-> a.max_size,
     min_length |-> a.length, max_length |-> a.max_length,
     links |-> a.link, other_files |-> a.file, filters |-> a.filter,
     descending |-> a.descending,
     directories |-> a.directories, file_formats |-> a.file_formats,
     pattern |-> a.pattern, exclude_pattern |-> a.exclude_pattern,
     exclude_dirs |-> a.exclude_dirs, recursive |-> a.recursive,
     unique |-> a.unique, absolute |-> a.absolute, windows |-> a.windows,
     unix |-> a.unix, url_char |-> a.url_chars, interactive |-> a.interactive]

-----------------------------------------------------------------------------
(* Inputs *)

TITLE_OLD == << "O", "l", "d" >>
TITLE_MIX == << "m", "y", " ", " ", "m", "i", "X" >>
TITLE_ETE == << "é", "t", "é" >>

\* the destination playlist file before the process starts
NoFile == [exists |-> FALSE, text |-> <<>>]

FileWith(text) == [exists |-> TRUE, text |-> text]

PreExisting ==
    { NoFile,
      FileWith(<<>>),
      FileWith(EXTM3U \o <<NL>> \o PLAYLIST \o <<":">> \o TITLE_OLD \o <<NL>>),
      FileWith(J1 \o <<NL>>),
      FileWith(EXTM3U \o <<NL>> \o EXTENC \o <<":">> \o UTF8 \o <<NL>> \o J1 \o <<NL>>) }

\* the default of the positional argument: os.path.join(os.getcwd(),
\* os.path.split(os.getcwd())[1])
DEFAULT_PLAYLIST == CWD \o << "/", "w" >>

\* parse_args() without options
DefaultArgs ==
    [playlist |-> DEFAULT_PLAYLIST, append |-> FALSE, title |-> <<>>, encoding |-> "", image |-> <<>>,
     add_info |-> FALSE, max_tracks |-> <<>>, orderby |-> "none",
     descending |-> FALSE, size |-> <<"0">>, max_size |-> <<"0">>,
     length |-> 0, max_length |-> 0, link |-> <<>>, file |-> <<>>, join |-> <<>>,
     filter |-> <<>>,
     directories |-> <<DOT>>, include |-> <<>>, format |-> <<>>,
     file_formats |-> FILE_FORMAT, pattern |-> <<>>, exclude_pattern |-> <<>>,
     exclude_dirs |-> <<>>, recursive |-> FALSE, unique |-> FALSE,
     absolute |-> FALSE, windows |-> FALSE, unix |-> FALSE, url_chars |-> FALSE,
     interactive |-> FALSE,
     open_mode |-> "", enabled_extensions |-> FALSE, enabled_title |-> FALSE,
     enabled_encoding |-> FALSE]

\* command lines that set the header options
HeaderLines ==
    { [DefaultArgs EXCEPT !.append = ap, !.title = t, !.encoding = en,
                          !.image = im, !.add_info = ai] :
        ap \in BOOLEAN, t \in {<<>>, TITLE_MIX, TITLE_ETE},
        en \in {"", "UTF-8", "ASCII", "UNICODE"}, im \in {<<>>, COVER, NOCOVER},
        ai \in BOOLEAN }

\* command lines that set the order and the extra sources
OrderLines ==
    { [DefaultArgs EXCEPT !.orderby = ob, !.descending = de, !.link = li,
                          !.file = fi, !.join = jo] :
        ob \in {"none", "name", "date", "track", "year", "size", "length", "shuffle"},
        de \in BOOLEAN, li \in {<<>>, <<BADLINK, LINK>>},
        fi \in {<<>>, <<GONE_MP3, E_MP3>>}, jo \in {<<>>, <<NOJOIN, JOINED>>} }

SizeOptions == {IntStr(n) : n \in 0..MaxSize} \cup {<<"1", " ", "K">>, <<"k">>}

\* command lines that set the size or the length bounds
FilterLines ==
    { [DefaultArgs EXCEPT !.size = lo, !.max_size = hi] :
        lo \in SizeOptions, hi \in SizeOptions }
    \cup
    { [DefaultArgs EXCEPT !.length = lo, !.max_length = hi] :
        lo \in 0..MaxLength, hi \in 0..MaxLength }

\* command lines that limit the number of tracks
TrackLines ==
    { [DefaultArgs EXCEPT !.max_tracks = mt, !.append = ap, !.title = t, !.join = jo] :
        mt \in {<<>>} \cup {<<n>> : n \in (0 - MaxTracks)..MaxTracks},
        ap \in BOOLEAN, t \in {<<>>, TITLE_OLD}, jo \in {<<>>, <<JOINED>>} }

\* the filter strings given to --filter
FILTERS ==
    { << "a", "r", "t", "i", "s", "t", "=", "a", "b" >>,
      << "A", "R", "T", "I", "S", "T", "=", "'", "A", "'" >>,
      << "y", "e", "a", "r", "=", "1", "9" >>,
      << "a", "r", "t", "i", "s", "t" >>,
      << "g", "=", "1" >>,
      << "b", "a", "d" >> }

\* command lines that set tag filters
TagFilterLines ==
    { [DefaultArgs EXCEPT !.filter = <<f>>] : f \in FILTERS }
    \cup
    { [DefaultArgs EXCEPT !.filter = <<f, g>>] : f \in FILTERS, g \in FILTERS }

\* command lines that name the playlist file
NameLines ==
    { [DefaultArgs EXCEPT !.playlist = n, !.encoding = en, !.append = ap, !.image = im] :
        n \in {DEFAULT_PLAYLIST, << "p" >>, << "p" >> \o M3U, << "p" >> \o M3U8,
               << "p", ".", "M", "3", "U" >>, << "d" >>},
        en \in {"", "UTF-8", "ASCII", "UNICODE"}, ap \in BOOLEAN,
        im \in {<<>>, NOCOVER} }

CommandLines ==
    HeaderLines \cup OrderLines \cup FilterLines \cup TrackLines \cup TagFilterLines
    \cup NameLines

\* the orders in which the directory scan can find the candidates: one glob
\* per format, the formats in any order and the files of a glob in any order
ScanOrders ==
    { s \in [1..Cardinality(CANDIDATES) -> CANDIDATES] :
        /\ \A i, j \in 1..Cardinality(CANDIDATES) : s[i] = s[j] => i = j
        /\ \A i, j, k \in 1..Cardinality(CANDIDATES) :
               (i < k /\ k < j /\ Ext(s[i]) = Ext(s[j])) => Ext(s[k]) = Ext(s[i]) }

-----------------------------------------------------------------------------
(* The process: main() -> main_cli() *)

EmptyPlaylist == Playlist(<<>>, FALSE, <<>>, "")

\* make_playlist: the loops have not started, or are over
NoWalk == [dirs |-> <<>>, path |-> <<>>, fmts |-> {}, files |-> {}]

Init ==
    /\ pc = "start"
    /\ args = DefaultArgs
    /\ params = MakeParams(DefaultArgs)
    /\ dest \in PreExisting
    /\ before = dest
    /\ playlist = EmptyPlaylist
    /\ log = {}
    /\ walk = NoWalk
    /\ asked = <<>>

\* parser.parse_args(): a command line is given
ParseArgs ==
    /\ pc = "start"
    /\ args' \in CommandLines
    /\ pc' = "get_args"
    /\ UNCHANGED <<params, dest, before, playlist, log, walk, asked>>

\* get_args(), after parse_args
GetArgs ==
    /\ pc = "get_args"
    /\ dest' = IF args.append /\ ~isdir(PlaylistName(args))
               THEN FileWith(dest.text) ELSE dest
    /\ \E outcome \in {GetArgsOutcome(args, dest.text)} :
         /\ args' = IF outcome = "ok" THEN get_args(args, dest.text) ELSE args
         /\ log' = log \cup (IF Extensions(args, dest.text).warned
                             THEN {"warning: image has not been set"} ELSE {})
                       \cup (IF outcome = "ok" THEN FilterWarnings(args.filter)
                             ELSE IF outcome = "error" THEN {"error: usage"}
                             ELSE {Report(outcome)})
         /\ pc' = IF outcome = "ok" THEN "main_cli"
                  ELSE IF outcome = "error" THEN "exit2" ELSE "exit1"
    /\ UNCHANGED <<params, before, playlist, walk, asked>>

\* main_cli: the call fn_make_playlist(args.directories, FILE_FORMAT, ...)
CallMakePlaylist ==
    /\ pc = "main_cli"
    /\ params' = MakeParams(args)
    /\ pc' = "make_playlist"
    /\ UNCHANGED <<args, dest, before, playlist, log, walk, asked>>

\* make_playlist: the scan of the directories, then the links and other files
ScanDirectories ==
    /\ pc = "make_playlist"
    /\ \E scan \in ScanOrders :
         IF ScanRaises(scan)
         THEN pc' = "exit1" /\ log' = log \cup {Report(ScanError(scan))}
              /\ UNCHANGED playlist
         ELSE /\ pc' = "sort"
              /\ playlist' = Playlist(Unsorted(scan), params.extension, params.title,
                                      params.encoding)
              /\ UNCHANGED log
    /\ UNCHANGED <<args, params, dest, before, walk, asked>>

\* make_playlist: the sort, and the return to the caller
SortPlaylist ==
    /\ pc = "sort"
    /\ \E rnd \in IF params.sortby_shuffle THEN Perms(Len(playlist.files)) ELSE {<<>>} :
         IF SortRaises(playlist.files)
         THEN pc' = "exit1" /\ UNCHANGED playlist
         ELSE /\ pc' = "made"
              /\ playlist' = [playlist EXCEPT !.files = Sorted(playlist.files, rnd)]
    /\ log' = IF SortRaises(playlist.files) THEN log \cup {Report(SortError(playlist.files))}
              ELSE IF params.sortby_shuffle /\ params.descending
              THEN log \cup {"warning: descending flag is ignored with shuffle"}
              ELSE log
    /\ UNCHANGED <<args, params, dest, before, walk, asked>>

\* main_cli: if args.join: join_playlist(playlist, *args.join)
JoinPlaylist ==
    /\ pc = "made"
    /\ playlist' = join_playlist(playlist, args.join)
    /\ log' = log \cup {"warning: file not found" :
                            i \in {k \in 1..Len(args.join) : args.join[k] \notin ReadablePlaylists}}
    /\ pc' = "write_playlist"
    /\ UNCHANGED <<args, params, dest, before, walk, asked>>

\* main_cli: write_playlist(...) if playlist.files, else the warning
WritePlaylist ==
    /\ pc = "write_playlist"
    /\ IF playlist.files # <<>>
       THEN /\ dest' = FileWith(write_playlist(dest.text, args.open_mode, playlist,
                                               args.max_tracks))
            /\ UNCHANGED log
       ELSE /\ log' = log \cup {"warning: no multimedia files are found"}
            /\ UNCHANGED dest
    /\ pc' = "exit0"
    /\ UNCHANGED <<args, params, before, playlist, walk, asked>>

Next ==
    \/ ParseArgs
    \/ GetArgs
    \/ CallMakePlaylist
    \/ ScanDirectories
    \/ SortPlaylist
    \/ JoinPlaylist
    \/ WritePlaylist

Spec == Init /\ [][Next]_vars

-----------------------------------------------------------------------------
(* The library: a caller of make_playlist and write_playlist (__all__) *)

\* the keyword arguments a caller passes to make_playlist
ApiParams ==
    { [MakeParams(get_args(DefaultArgs, <<>>)) EXCEPT
          !.extension = ex, !.title = t, !.encoding = en, !.image = im, !.infos = inf] :
        ex \in BOOLEAN, t \in {<<>>, TITLE_OLD}, en \in {"", "UTF-8"},
        im \in {<<>>, COVER}, inf \in BOOLEAN }

\* the max_tracks values a caller passes
TrackOptions == {<<>>} \cup {<<n>> : n \in (0 - MaxTracks)..MaxTracks}

InitApi ==
    /\ pc = "caller"
    /\ args = DefaultArgs
    /\ params = MakeParams(DefaultArgs)
    /\ dest \in PreExisting
    /\ before = dest
    /\ playlist = EmptyPlaylist
    /\ log = {}
    /\ walk = NoWalk
    /\ asked = <<>>

\* the caller calls make_playlist(directories, file_formats, **params)
ApiMakePlaylist ==
    /\ pc = "caller"
    /\ params' \in ApiParams
    /\ pc' = "make_playlist"
    /\ UNCHANGED <<args, dest, before, playlist, log, walk, asked>>

\* the caller calls write_playlist(playlist_file, open_mode, playlist, max_tracks)
ApiWritePlaylist ==
    /\ pc = "made"
    /\ \E mode \in {"wt", "at+"}, mt \in TrackOptions :
         /\ args' = [args EXCEPT !.open_mode = mode, !.max_tracks = mt]
         /\ dest' = FileWith(write_playlist(dest.text, mode, playlist, mt))
    /\ pc' = "written"
    /\ UNCHANGED <<params, before, playlist, log, walk, asked>>

NextApi ==
    \/ ApiMakePlaylist
    \/ ScanDirectories
    \/ SortPlaylist
    \/ ApiWritePlaylist

SpecApi == InitApi /\ [][NextApi]_vars

-----------------------------------------------------------------------------
(* make_playlist, one iteration of its loops at a time *)

\* Path(directory).parent
Parent(path) ==
    IF \E i \in 1..Len(path) : path[i] = "/"
    THEN SubSeq(path, 1, Last({i \in 1..Len(path) : path[i] = "/"}) - 1)
    ELSE DOT

\* os.path.join(root, f)
Join(root, f) == IF StartsWith(f, <<"/">>) THEN f ELSE root \o <<"/">> \o f

\* str(file.resolve())
Resolved(file) == CWD \o <<"/">> \o file

\* unix_to_dos(path, viceversa)
unix_to_dos(path, viceversa) ==
    [i \in 1..Len(path) |->
        IF viceversa THEN (IF path[i] = "\\" THEN "/" ELSE path[i])
        ELSE (IF path[i] = "/" THEN "\\" ELSE path[i])]

\* urllib.parse.quote of one character, safe="/"
Quoted(c) ==
    CASE c = " "  -> << "%", "2", "0" >>
      [] c = "#"  -> << "%", "2", "3" >>
      [] c = "%"  -> << "%", "2", "5" >>
      [] c = "\\" -> << "%", "5", "C" >>
      [] c = "é"  -> << "%", "C", "3", "%", "A", "9" >>
      [] OTHER    -> <<c>>

\* url_chars(file)
url_chars(file) == Concat([i \in 1..Len(file) |-> Quoted(file[i])])

\* escape_newlines(string)
escape_newlines(string) ==
    Concat([i \in 1..Len(string) |->
               IF string[i] = NL THEN << "\\", "n" >> ELSE << string[i] >>])

\* filecmp.cmp(f1, f2): os.stat raises for a missing file; the files of the
\* modelled disk differ in size or modification time unless their content is equal
cmp(f1, f2) ==
    IF ~exists(f1) \/ ~exists(f2) THEN BoolRaise("FileNotFoundError")
    ELSE BoolResult(FileAt(f1).content = FileAt(f2).content)

\* file_in_playlist: the path compared for the entry location f
Standard(f, root) == unix_to_dos(IF root # <<>> THEN Join(root, f) ELSE f, TRUE)

RECURSIVE file_in_playlist(_, _, _)
\* file_in_playlist(playlist, file, root), root <<>> standing for None
file_in_playlist(files, file, root) ==
    IF files = <<>> THEN BoolResult(FALSE)
    ELSE IF StartsWith(Head(files).file, <<"#">>)
         THEN file_in_playlist(Tail(files), file, root)
    ELSE IF cmp(Standard(Head(files).file, root), file) = BoolResult(FALSE)
         THEN file_in_playlist(Tail(files), file, root)
    ELSE cmp(Standard(Head(files).file, root), file)

\* find_pattern: `title and pattern.findall(title)`
TitleFound(pattern, title) ==
    IF title.st = "raise" THEN BoolRaise(title.err)
    ELSE BoolResult(title.st = "ok" /\ title.v # <<>> /\ Contains(pattern, title.v))

\* find_pattern: the search in the title tag once `file` is opened
PatternOn(pattern, file) ==
    IF file.kind = "none" THEN BoolRaise("AttributeError")
    ELSE TitleFound(pattern, TagOf(file, FilterTag(file, "title"), None))

\* find_pattern(pattern, path), pattern a text without special characters
find_pattern(pattern, path) ==
    IF Contains(pattern, path) THEN BoolResult(TRUE)
    ELSE IF Ext(path) \in AUDIO_FORMAT THEN PatternOn(pattern, open_multimedia_file(path))
    ELSE BoolResult(FALSE)

\* whether directory d is `path` or below it
Under(path, d) == path = DOT \/ d = path \/ StartsWith(d, path \o <<"/">>)

\* path.glob(folder + f".{fmt}", case_sensitive=False): the files found
Glob(path, fmt, recursive) ==
    { f.path : f \in
        { g \in DISK :
            /\ EndsWith(LowerText(g.path), <<".">> \o LowerText(fmt))
            /\ IF recursive THEN Under(path, Parent(g.path))
               ELSE Parent(g.path) = path } }

\* make_playlist: how a check ends that lets the file through when its result
\* is `want`: "pass", "reject" (continue) or the type of the exception raised
Verdict(result, want) ==
    IF result.st = "raise" THEN result.err
    ELSE IF result.b = want THEN "pass" ELSE "reject"

\* make_playlist: the checks on a found file in the order of the code, `files`
\* being the entries appended so far and `root` the root given to file_in_playlist
Checks(file, files, root) ==
    << IF params.pattern # <<>>
       THEN Verdict(find_pattern(params.pattern, file), TRUE) ELSE "pass",
       IF params.exclude_pattern # <<>>
       THEN Verdict(find_pattern(params.exclude_pattern, file), FALSE) ELSE "pass",
       IF \E i \in 1..Len(params.exclude_dirs) : Contains(params.exclude_dirs[i], file)
       THEN "reject" ELSE "pass",
       Verdict(Filtered(file), TRUE),
       IF params.unique THEN Verdict(file_in_playlist(files, file, root), FALSE)
       ELSE "pass",
       IF SizeAccepted(FileAt(file).size) THEN "pass" ELSE "reject",
       IF LengthAccepted(file) THEN "pass" ELSE "reject" >>

\* make_playlist: how the checks before the confirmation end for a found file:
\* the first verdict that is not "pass"
Checked(file, files, root) ==
    Head(SelectSeq(Checks(file, files, root), LAMBDA v : v # "pass") \o <<"pass">>)

\* make_playlist: the location written in the entry of a found file
Location(file) ==
    escape_newlines(
        IF params.url_char
        THEN url_chars(IF params.windows THEN unix_to_dos(file, FALSE)
                       ELSE IF params.unix THEN unix_to_dos(file, TRUE) ELSE file)
        ELSE IF params.windows THEN unix_to_dos(file, FALSE)
        ELSE IF params.unix THEN unix_to_dos(file, TRUE) ELSE file)

\* the keyword arguments of a call that sets the roots and the path options;
\* the recursive scans start below the current directory, which bounds the
\* number of files one call visits
UniqueCalls ==
    { p \in
        { [MakeParams(get_args(DefaultArgs, <<>>)) EXCEPT
              !.directories = ds, !.recursive = re, !.unique = un, !.absolute = ab,
              !.windows = (st = "windows"), !.unix = (st = "unix")] :
            ds \in {<<DOT>>, <<X_DIR>>, <<XY_DIR>>, <<DOT, X_DIR>>, <<X_DIR, XY_DIR>>,
                    <<NO_DIR, A_MP3, X_DIR>>},
            re \in BOOLEAN, un \in BOOLEAN, ab \in BOOLEAN,
            st \in {"", "windows", "unix"} } :
        ~(p.recursive /\ p.directories[1] = DOT) }

\* the keyword arguments of a call after --include / --format
FormatCalls ==
    { [MakeParams(get_args(DefaultArgs, <<>>)) EXCEPT
          !.directories = ds, !.file_formats = Formats(inc, fmt), !.url_char = uc,
          !.windows = wi] :
        ds \in {<<DOT>>, <<X_DIR>>, <<XY_DIR>>},
        inc \in {<<>>, << << "*", ".", "M", "P", "3" >> >>, << << "j", "p", "g" >> >>},
        fmt \in {<<>>, << "m", "p", "3" >>},
        uc \in BOOLEAN, wi \in BOOLEAN }

\* the keyword arguments of a call that reads the tags of the files
MetadataCalls ==
    { [MakeParams(get_args(DefaultArgs, <<>>)) EXCEPT
          !.directories = ds, !.infos = inf, !.pattern = pa, !.exclude_pattern = ex,
          !.filters = fi,
          !.sortby_track = (so = "track"), !.sortby_year = (so = "year"),
          !.sortby_length = (so = "length")] :
        ds \in {<<Z_DIR>>, <<DOT, XY_DIR>>},
        inf \in BOOLEAN, pa \in {<<>>, << "S", "o" >>}, ex \in {<<>>, << "b", "." >>},
        fi \in {<<>>, << PlaylistFilter(TAG_KEYS.artist, Some(<< "a" >>)) >>},
        so \in {"", "track", "year", "length"} }

\* the keyword arguments of an interactive call
ConfirmCalls ==
    { [MakeParams(get_args(DefaultArgs, <<>>)) EXCEPT
          !.interactive = TRUE,
          !.directories = ds, !.infos = inf, !.pattern = pa, !.exclude_dirs = ed,
          !.filters = fi, !.unique = un, !.min_size = lo, !.max_length = hi] :
        ds \in {<<DOT>>, <<X_DIR, Z_DIR>>},
        inf \in BOOLEAN, pa \in {<<>>, << "S", "o" >>}, ed \in {<<>>, << << "b", "." >> >>},
        fi \in {<<>>, << PlaylistFilter(TAG_KEYS.artist, Some(<< "a" >>)) >>},
        un \in BOOLEAN, lo \in {0, 1}, hi \in {0, 2} }

ScanCalls == UniqueCalls \cup FormatCalls \cup MetadataCalls \cup ConfirmCalls

InitScan ==
    /\ pc = "caller"
    /\ args = DefaultArgs
    /\ params = MakeParams(DefaultArgs)
    /\ dest = NoFile
    /\ before = dest
    /\ playlist = EmptyPlaylist
    /\ log = {}
    /\ walk = NoWalk
    /\ asked = <<>>

\* the caller calls make_playlist(directories, file_formats, **params)
CallScan ==
    /\ pc = "caller"
    /\ params' \in ScanCalls
    /\ playlist' = Playlist(<<>>, params'.extension, params'.title, params'.encoding)
    /\ walk' = [NoWalk EXCEPT !.dirs = params'.directories]
    /\ pc' = "scan"
    /\ UNCHANGED <<args, dest, before, log, asked>>

\* make_playlist: `for directory in directories`, up to the loop over the formats
NextDirectory ==
    /\ pc = "scan"
    /\ walk.files = {} /\ walk.fmts = {} /\ walk.dirs # <<>>
    /\ IF ~(exists(Head(walk.dirs)) \/ isdir(Head(walk.dirs)))
       THEN /\ log' = log \cup {"warning: does not exists"}
            /\ walk' = [walk EXCEPT !.dirs = Tail(@)]
       ELSE IF ~isdir(Head(walk.dirs))
       THEN /\ log' = log \cup {"warning: is not a directory"}
            /\ walk' = [walk EXCEPT !.dirs = Tail(@)]
       ELSE /\ walk' = [walk EXCEPT !.dirs = Tail(@), !.path = Head(walk.dirs),
                                    !.fmts = params.file_formats]
            /\ UNCHANGED log
    /\ UNCHANGED <<pc, args, params, dest, before, playlist, asked>>

\* make_playlist: `for fmt in file_formats` (a set: any order), the glob
NextFormat ==
    /\ pc = "scan"
    /\ walk.files = {} /\ walk.fmts # {}
    /\ \E fmt \in walk.fmts :
         walk' = [walk EXCEPT !.fmts = @ \ {fmt},
                              !.files = Glob(walk.path, fmt, params.recursive)]
    /\ UNCHANGED <<pc, args, params, dest, before, playlist, log, asked>>

\* make_playlist: `for file in files` (any order): the checks, the confirmation
\* (`answer` is what confirm returns) and the entry appended
VisitFile ==
    /\ pc = "scan"
    /\ \E found \in walk.files, answer \in BOOLEAN :
         \E file \in {IF params.absolute THEN Resolved(found) ELSE found} :
           \E verdict \in {Checked(file, playlist.files,
                                   IF params.absolute THEN <<>> ELSE Parent(walk.path))} :
             /\ walk' = [walk EXCEPT !.files = @ \ {found}]
             /\ asked' = IF verdict = "pass" /\ params.interactive
                         THEN Append(asked, [file |-> file, answer |-> answer])
                         ELSE asked
             /\ IF verdict = "reject" \/ (verdict = "pass" /\ params.interactive /\ ~answer)
                THEN UNCHANGED <<pc, playlist, log>>
                ELSE IF verdict # "pass"
                THEN /\ pc' = "raised"
                     /\ log' = log \cup {Report(verdict)}
                     /\ UNCHANGED playlist
                ELSE IF EntryInfo(Location(file)).st = "raise"
                THEN /\ pc' = "raised"
                     /\ log' = log \cup {Report(EntryInfo(Location(file)).err)}
                     /\ UNCHANGED playlist
                ELSE /\ playlist' = [playlist EXCEPT
                                        !.files = Append(@, FileEntry(Location(file)))]
                     /\ UNCHANGED <<pc, log>>
    /\ UNCHANGED <<args, params, dest, before>>

\* make_playlist: after the loops, the links and the other files are added
AddSources ==
    /\ pc = "scan"
    /\ walk.files = {} /\ walk.fmts = {} /\ walk.dirs = <<>>
    /\ playlist' = [playlist EXCEPT !.files = @ \o LinkEntries \o OtherEntries]
    /\ walk' = NoWalk
    /\ pc' = "sort"
    /\ UNCHANGED <<args, params, dest, before, log, asked>>

NextScan ==
    \/ CallScan
    \/ NextDirectory
    \/ NextFormat
    \/ VisitFile
    \/ AddSources
    \/ SortPlaylist

SpecScan == InitScan /\ [][NextScan]_vars

-----------------------------------------------------------------------------
(* The library: a caller writes a Playlist and joins the written file back *)

HASH_MP3 == << "#", "1", ".", "m", "p", "3" >>
ETE_MP3 == << "é", "t", "é", ".", "m", "p", "3" >>
SPACE_MP3 == << "a", ".", "m", "p", "3", " " >>
INFO_AB == << "1", ",", "A", "b", " ", "-", " ", "S", "o" >>

\* the entries of the Playlist objects the caller builds
RoundTripEntries ==
    { PlaylistEntry(f, im, inf) :
        f \in {A_MP3, E_MP3, LINK, HASH_MP3, ETE_MP3, SPACE_MP3},
        im \in {<<>>, COVER}, inf \in {<<>>, INFO_AB} }

\* the Playlist objects the caller builds: up to two entries
RoundTripPlaylists ==
    { Playlist(fs, ex, t, en) :
        fs \in {<<>>} \cup {<<e>> : e \in RoundTripEntries}
               \cup {<<PlaylistEntry(f, <<>>, <<>>), e>> :
                        f \in {A_MP3, HASH_MP3}, e \in RoundTripEntries},
        ex \in BOOLEAN, t \in {<<>>, TITLE_OLD}, en \in {"", "UTF-8", "ASCII"} }

InitRoundTrip ==
    /\ pc = "caller"
    /\ args = DefaultArgs
    /\ params \in {[playlist |-> p, open_mode |-> "wt", max_tracks |-> <<>>] :
                      p \in RoundTripPlaylists}
    /\ dest \in {NoFile, FileWith(J1 \o <<NL>>)}
    /\ before = dest
    /\ playlist = EmptyPlaylist
    /\ log = {}
    /\ walk = NoWalk
    /\ asked = <<>>

\* the caller calls write_playlist(playlist_file, "wt", playlist)
WriteTruncate ==
    /\ pc = "caller"
    /\ dest' = FileWith(write_playlist(dest.text, params.open_mode, params.playlist,
                                       params.max_tracks))
    /\ pc' = "written"
    /\ UNCHANGED <<args, params, before, playlist, log, walk, asked>>

\* the caller calls join_playlist(Playlist([]), playlist_file)
JoinWritten ==
    /\ pc = "written"
    /\ playlist' = [playlist EXCEPT !.files = @ \o LineEntries(Lines(dest.text))]
    /\ pc' = "joined"
    /\ UNCHANGED <<args, params, dest, before, log, walk, asked>>

NextRoundTrip ==
    \/ WriteTruncate
    \/ JoinWritten

SpecRoundTrip == InitRoundTrip /\ [][NextRoundTrip]_vars

-----------------------------------------------------------------------------
(* Properties *)

\* the lines of `text` that contain `mark`
MarkerLines(mark, text) ==
    {i \in 1..Len(Lines(text)) : Contains(mark, Lines(text)[i])}

\* what has been added after the text the destination had before the run
Appended == SubSeq(dest.text, Len(before.text) + 1, Len(dest.text))

\* what the call of write_playlist has put into the destination
WrittenText == IF args.open_mode = "at+" THEN Appended ELSE dest.text

\* the lines of `text` that are locations (not marker lines)
LocationLines(text) == SelectSeq(Lines(text), LAMBDA l : ~StartsWith(l, <<"#">>))

\* `path` is the location of an entry of the playlist
InPlaylist(path) == \E i \in 1..Len(playlist.files) : playlist.files[i].file = path

\* a and b hold the same entries, each as many times
SameEntries(a, b) ==
    /\ Len(a) = Len(b)
    /\ \A i \in 1..Len(a) :
         Cardinality({j \in 1..Len(a) : a[j] = a[i]})
             = Cardinality({j \in 1..Len(b) : b[j] = a[i]})

\* C1: an append run on a non-empty destination whose first three lines hold
\* #EXTM3U writes no other #EXTM3U line: the file ends with exactly one.
C1_SingleHeaderMarker ==
    (pc = "exit0" /\ args.open_mode = "at+" /\ before.text # <<>>
                  /\ InFirstLines(EXTM3U, before.text))
        => Cardinality(MarkerLines(EXTM3U, dest.text)) = 1

\* C2: an append run that requests a title (an encoding) on a destination whose
\* first three lines hold a #PLAYLIST (#EXTENC) line writes no second one: the
\* file holds at most one of each.
C2_SingleTitleAndEncoding ==
    (pc = "exit0" /\ args.open_mode = "at+") =>
        /\ (args.title # <<>> /\ InFirstLines(PLAYLIST, before.text))
               => Cardinality(MarkerLines(PLAYLIST, dest.text)) <= 1
        /\ (args.encoding # "" /\ InFirstLines(EXTENC, before.text))
               => Cardinality(MarkerLines(EXTENC, dest.text)) <= 1

\* C3: in append mode on a non-empty destination whose first three lines hold no
\* #EXTM3U, get_args leaves no image in the arguments (a requested image is
\* dropped), and no #EXTIMG and no #EXTM3U line is appended for it.
C3_ImageDropped ==
    (pc \notin {"start", "get_args", "exit1", "exit2"} /\ args.append
        /\ before.text # <<>> /\ ~InFirstLines(EXTM3U, before.text))
        => /\ args.image = <<>>
           /\ pc = "exit0" => MarkerLines(EXTIMG, Appended) = {}

\* C4: write_playlist called with a playlist whose ext is false writes no
\* #EXTM3U, #PLAYLIST, #EXTENC, #EXTIMG or #EXTINF line.
C4_NothingExtendedWithoutExt ==
    (pc = "written" /\ ~playlist.ext) =>
        \A i \in 1..Len(Lines(WrittenText)) :
            \A mark \in {EXTM3U, PLAYLIST, EXTENC, EXTIMG, EXTINF} :
                ~StartsWith(Lines(WrittenText)[i], mark)

SortNumber(e) ==
    IF params.sortby_date THEN get_ctime(e.file)
    ELSE IF params.sortby_size THEN get_size(e.file)
    ELSE IF params.sortby_length THEN get_length(e.file)
    ELSE get_track(e.file).n

\* C6: with sortby_name the entries make_playlist returns are in ascending order
\* of location, and in descending order when descending is set; the other
\* deterministic sort modes are reversed by descending in the same way.
C6_NameOrderWithDirection ==
    pc = "made" =>
        \A i, j \in 1..Len(playlist.files) : i < j =>
            LET a == playlist.files[i]
                b == playlist.files[j]
            IN  /\ params.sortby_name =>
                      IF params.descending THEN ~StrLess(a.file, b.file)
                      ELSE ~StrLess(b.file, a.file)
                /\ (params.sortby_date \/ params.sortby_size
                      \/ params.sortby_length \/ params.sortby_track) =>
                      IF params.descending THEN SortNumber(a) >= SortNumber(b)
                      ELSE SortNumber(a) <= SortNumber(b)
                /\ params.sortby_year =>
                      IF params.descending
                      THEN ~StrLess(get_year(a.file).v, get_year(b.file).v)
                      ELSE ~StrLess(get_year(b.file).v, get_year(a.file).v)

\* the title with each word capitalized, the words separated by one space
WordsCapitalized(title) ==
    JoinWith(<<" ">>,
             [i \in 1..Len(Words(title)) |->
                 <<Upper(Head(Words(title)[i]))>>
                 \o [k \in 1..(Len(Words(title)[i]) - 1) |->
                        Lower(Words(title)[i][k + 1])]])

\* the header lines of the layout, without their newline
LayoutHeader ==
    <<EXTM3U>>
    \o (IF playlist.name # <<>>
        THEN << PLAYLIST \o <<":">> \o WordsCapitalized(playlist.name) >> ELSE <<>>)
    \o (IF playlist.encoding # ""
        THEN << EXTENC \o <<":">> \o EncodingText(playlist.encoding) >> ELSE <<>>)

RECURSIVE LayoutEntries(_)
\* the lines of the layout for the first k entries, without their newline
LayoutEntries(k) ==
    IF k <= 0 THEN <<>>
    ELSE LayoutEntries(k - 1)
         \o (IF playlist.files[k].image # <<>>
             THEN << EXTIMG \o <<":">> \o playlist.files[k].image >> ELSE <<>>)
         \o (IF playlist.files[k].extinf # <<>>
             THEN << EXTINF \o <<":">> \o playlist.files[k].extinf >> ELSE <<>>)
         \o << playlist.files[k].file >>

\* the lines written are the `layout` lines, each stored in the destination's
\* encoding and ended by a newline
WrittenAs(layout) ==
    Lines(WrittenText)
        = [i \in 1..Len(layout) |-> Encode(layout[i], playlist.encoding) \o <<NL>>]

\* C7: when ext is true write_playlist writes #EXTM3U, then #PLAYLIST:<title,
\* each word capitalized> if there is a title, then #EXTENC:<encoding> if there
\* is one, then for each entry written, in order, its #EXTIMG line (if it has an
\* image), its #EXTINF line (if it has an info), and its location; each line ends
\* with a newline; without a track limit every entry is written.
C7_SerializedLayout ==
    (pc = "exit0" /\ playlist.files # <<>> /\ playlist.ext) =>
        \E k \in 0..Len(playlist.files) :
            /\ args.max_tracks = <<>> => k = Len(playlist.files)
            /\ WrittenAs(LayoutHeader \o LayoutEntries(k))

\* C7 case: a title of two words, an encoding, and entries with image and info
C7_FullLayoutWritten ==
    /\ pc = "exit0"
    /\ playlist.ext
    /\ playlist.name = TITLE_MIX
    /\ playlist.encoding = "UTF-8"
    /\ Len(playlist.files) = 3
    /\ \A i \in 1..3 : playlist.files[i].image = COVER /\ playlist.files[i].extinf # <<>>
    /\ Len(Lines(WrittenText)) = 12
    /\ Lines(WrittenText)[2]
           = PLAYLIST \o << ":", "M", "y", " ", "M", "i", "x", NL >>

\* C8: write_playlist writes the locations of exactly the first
\* min(max_tracks, number of entries) entries, in order (all of them when
\* max_tracks is None), and never more than max_tracks locations.
C8_TrackLimit ==
    (pc = "exit0" /\ playlist.files # <<>>) =>
        LET n == Len(playlist.files)
            k == IF args.max_tracks = <<>> THEN n
                 ELSE IF args.max_tracks[1] < n THEN args.max_tracks[1] ELSE n
        IN  /\ LocationLines(WrittenText)
                  = [i \in 1..k |->
                        Encode(playlist.files[i].file, playlist.encoding) \o <<NL>>]
            /\ args.max_tracks # <<>>
                  => Len(LocationLines(WrittenText)) <= args.max_tracks[1]

\* C9: with no length bound and no tag filter set, a candidate of the scanned
\* directory is in the playlist after the scan exactly when its size is above
\* the minimum size (if
\* set, i.e. not 0) and below the maximum size (if set): a size equal to a
\* bound is rejected, one byte inside the bound passes.
C9_SizeBounds ==
    (pc = "sort" /\ params.min_length = 0 /\ params.max_length = 0
     /\ params.filters = <<>>) =>
        \A f \in DISK : f.path \in CANDIDATES =>
            (InPlaylist(f.path) <=>
                /\ params.min_size # 0 => params.min_size < f.size
                /\ params.max_size # 0 => f.size < params.max_size)

\* C9 case: bounds 1 and 3; the file of 1 byte and the file of 3 bytes are
\* rejected, the file of 2 bytes is accepted
C9_BoundaryRejected ==
    /\ pc = "sort"
    /\ params.min_size = 1
    /\ params.max_size = 3
    /\ FileAt(V_AVI).size = 1 /\ ~InPlaylist(V_AVI)
    /\ FileAt(B_MP3).size = 2 /\ InPlaylist(B_MP3)
    /\ FileAt(A_MP3).size = 3 /\ ~InPlaylist(A_MP3)

\* the duration of a file in 1/100 s: the length its metadata give, and 0.1 s
\* when it cannot be read
Duration(f) ==
    IF Ext(f.path) \in AUDIO_FORMAT /\ f.media.kind # "none" /\ f.media.length >= 0
    THEN f.media.length ELSE 10

C11_ConflictingBoundsFatal ==
    pc \in {"make_playlist", "sort", "made", "write_playlist", "exit0"} =>
        /\ ~(args.size # 0 /\ args.max_size # 0 /\ args.size >= args.max_size)
        /\ ~(args.length # 0 /\ args.max_length # 0 /\ args.length >= args.max_length)

\* C12: after get_args every filter of the active set has a key of TAG_FILTER
\* and a value that is not None, and no run given filter strings is aborted by
\* an exception: a filter string without "=" or with an unknown key only
\* produces a warning.
C12_WellFormedFilters ==
    /\ pc \in {"main_cli", "make_playlist", "sort", "made", "write_playlist", "exit0"} =>
           \A i \in 1..Len(args.filter) :
               /\ validate_filter(args.filter[i])
               /\ args.filter[i].value.st = "ok"
    /\ pc = "exit1" => args.filter = <<>>

\* the content of the file an entry of the playlist refers to
EntryContent(e) == FileAt(unix_to_dos(e.file, TRUE)).content

\* C13: in a call with unique enabled, for every list of roots and every path
\* option, the comparison with the accepted entries never aborts the scan, and
\* no two collected entries refer to files with identical content.
C13_UniqueContent ==
    params.unique =>
        /\ Report("FileNotFoundError") \notin log
        /\ pc \in {"scan", "sort", "made"} =>
               \A i, j \in 1..Len(playlist.files) :
                   i < j => EntryContent(playlist.files[i]) # EntryContent(playlist.files[j])

\* the locations of a list of entries, in order
Locations(files) == [i \in 1..Len(files) |-> files[i].file]

\* C14: a Playlist written by write_playlist in truncate mode without track
\* limit and joined back into an empty Playlist by join_playlist yields the
\* original locations, in order and in number, as entries without image or info.
C14_RoundTrip ==
    pc = "joined" =>
        /\ Locations(playlist.files) = Locations(params.playlist.files)
        /\ \A i \in 1..Len(playlist.files) :
               playlist.files[i].image = <<>> /\ playlist.files[i].extinf = <<>>

\* the files of the roots of the call that match the extension set and satisfy
\* all the filters of the call
Matching ==
    { p \in {f.path : f \in DISK} :
        /\ \E i \in 1..Len(params.directories) :
               /\ isdir(params.directories[i])
               /\ IF params.recursive THEN Under(params.directories[i], Parent(p))
                  ELSE Parent(p) = params.directories[i]
        /\ \E fmt \in params.file_formats :
               EndsWith(LowerText(p), <<".">> \o LowerText(fmt))
        /\ Checked(IF params.absolute THEN Resolved(p) ELSE p, <<>>, <<>>) = "pass" }

\* C15: a call without links, other files, uniqueness or confirmation returns
\* exactly one entry for each file of the roots that matches the extension set
\* and satisfies the filters: as many entries as such files, at the locations
\* of these files whatever the order of the scan.
C15_Cardinality ==
    (/\ pc \in {"sort", "made"}
     /\ ~params.unique /\ ~params.interactive
     /\ params.links = <<>> /\ params.other_files = <<>>) =>
        /\ Len(playlist.files) = Cardinality(Matching)
        /\ {playlist.files[i].file : i \in 1..Len(playlist.files)}
               = {Location(IF params.absolute THEN Resolved(p) ELSE p) : p \in Matching}

\* C16: the playlist name get_args returns ends in ".m3u8" when the encoding
\* is UNICODE and in ".m3u" otherwise; a name that already ends in the
\* required suffix is returned unchanged, and the suffix never occurs twice
\* at the end of the name.
C16_NameSuffix ==
    [][(pc = "get_args" /\ pc' = "main_cli") =>
          \E suffix \in {IF args.encoding = "UNICODE" THEN M3U8 ELSE M3U} :
              /\ EndsWith(args'.playlist, suffix)
              /\ EndsWith(args.playlist, suffix) => args'.playlist = args.playlist
              /\ ~EndsWith(args'.playlist, suffix \o suffix)]_vars

\* the exceptions the readers of metadata raise for a file
MetadataErrors == {"AttributeError", "UnboundLocalError", "TypeError"}

\* C17: a file whose metadata cannot be opened, whose tags are absent or
\* whose tag container is of neither dialect never aborts make_playlist:
\* find_pattern, check_filter, get_tag, make_extinf and the sort keys return
\* without raising, so no exception of theirs is ever reported and the scan
\* and the sort run to their end.
C17_MetadataNeverAborts ==
    /\ \A e \in MetadataErrors : Report(e) \notin log
    /\ (params.filters # <<>> \/ params.pattern # <<>> \/ params.exclude_pattern # <<>>
        \/ params.infos \/ params.sortby_track \/ params.sortby_year
        \/ params.sortby_length) /\ ~params.unique => pc \notin {"raised", "exit1"}

\* the track number stored in the tags of the file at `path`: the number before
\* "/" of the first TRCK text, the first number of the first trkn pair, else 0
TrackNumber(path) ==
    IF "TRCK" \in DOMAIN open_multimedia_file(path).tags
    THEN IntOr0(BeforeSlash(open_multimedia_file(path).tags["TRCK"][1].text)).n
    ELSE IF "trkn" \in DOMAIN open_multimedia_file(path).tags
    THEN open_multimedia_file(path).tags["trkn"][1].pair[1]
    ELSE 0

\* C18: with sortby_track the entries are in the order of their track numbers
\* (0 for a missing or non-numeric track), and two entries that carry the same
\* track number, whether in an ID3 TRCK frame or in an MP4 trkn atom, get the
\* same sort key from get_track.
C18_TrackOrder ==
    (pc \in {"sort", "made"} /\ params.sortby_track /\ ~SortRaises(playlist.files)) =>
        /\ \A i, j \in 1..Len(playlist.files) :
               TrackNumber(playlist.files[i].file) = TrackNumber(playlist.files[j].file)
                   => get_track(playlist.files[i].file) = get_track(playlist.files[j].file)
        /\ pc = "made" =>
               \A i, j \in 1..Len(playlist.files) :
                   i < j => TrackNumber(playlist.files[i].file)
                                <= TrackNumber(playlist.files[j].file)

\* whether the file passes every filter of make_playlist, `files` being the
\* entries collected before it
PassesFilters(file, files) ==
    /\ params.pattern # <<>> => find_pattern(params.pattern, file) = BoolResult(TRUE)
    /\ params.exclude_pattern # <<>> =>
           find_pattern(params.exclude_pattern, file) = BoolResult(FALSE)
    /\ \A i \in 1..Len(params.exclude_dirs) : ~Contains(params.exclude_dirs[i], file)
    /\ params.filters # <<>> =>
           \E i \in 1..Len(params.filters) :
               check_filter(file, params.filters[i]) = BoolResult(TRUE)
    /\ params.unique =>
           \A k \in 1..Len(files) : EntryContent(files[k]) # FileAt(file).content
    /\ params.min_size # 0 => get_size(file) > params.min_size
    /\ params.max_size # 0 => get_size(file) < params.max_size
    /\ params.min_length # 0 => get_length(file) > 100 * params.min_length
    /\ params.max_length # 0 => get_length(file) < 100 * params.max_length

\* C19: confirm is the last gate: a step that asks about a file asks once,
\* about a file not asked about before and only if the file passes every
\* other filter; and a file the user confirms is appended by the same step.
C19_ConfirmLastGate ==
    [][asked' # asked =>
          \E question \in {asked'[Len(asked')]} :
              /\ asked' = Append(asked, question)
              /\ \A k \in 1..Len(asked) : asked[k].file # question.file
              /\ PassesFilters(question.file, playlist.files)
              /\ question.answer =>
                     /\ Len(playlist'.files) = Len(playlist.files) + 1
                     /\ playlist'.files[Len(playlist'.files)].file = Location(question.file)
              /\ ~question.answer => playlist' = playlist]_vars

\* C20: when get_args ends in a fatal error of the configuration (the
\* destination is a directory, the image does not exist, the length bounds
\* conflict), in truncate mode as in append mode, the destination file is
\* neither created nor modified: it is as it was before the run.
C20_FatalLeavesDestination == pc = "exit2" => dest = before

====
